---- MODULE Spec2Model ----
(***************************************************************************)
(* Model of app.py: a Streamlit chat page.  Every user interaction runs    *)
(* one pass of main() over st.session_state; the reset button runs its     *)
(* on_click callback before the pass.  The conversation object is a        *)
(* ConversationChain holding a ConversationBufferWindowMemory(k) and a     *)
(* ChatGroq client.                                                        *)
(***************************************************************************)
EXTENDS Integers, Sequences, FiniteSets, TLC

(* ------------------------------ bounds --------------------------------- *)
\* number of non-blank submissions executed in one behaviour
MaxSubmits == 3

(* ------------------------- program constants --------------------------- *)
SUPPORTED_MODELS == <<"llama-3.1-8b-instant", "deepseek-r1-distill-qwen-32b">>
DefaultMemoryLength == 5
SliderMin == 1
SliderMax == 15

(* ------------------------------- texts --------------------------------- *)
\* a text is a sequence of characters; " " is the whitespace character
\* the texts a user submits here: empty, whitespace only, plain, and with
\* leading or trailing whitespace
Texts == {<<>>, <<" ">>, <<"a">>, <<"b">>, <<" ", "a">>, <<"a", " ">>}
\* replies the remote model may give
Replies == {<<"x">>}

RECURSIVE lstrip(_)
lstrip(s) == IF s # <<>> /\ Head(s) = " " THEN lstrip(Tail(s)) ELSE s

RECURSIVE rstrip(_)
rstrip(s) == IF s # <<>> /\ s[Len(s)] = " " THEN rstrip(SubSeq(s, 1, Len(s) - 1)) ELSE s

\* str.strip()
strip(s) == rstrip(lstrip(s))

(* ------------------------------- state --------------------------------- *)
VARIABLES
    groq_api_key,    \* TRUE iff os.getenv("GROQ_API_KEY") gave a non-empty key
    session_keys,    \* names present in st.session_state
    chat_history,    \* st.session_state.chat_history
    conversation,    \* st.session_state.conversation
    model,           \* st.session_state.model
    memory_length,   \* st.session_state.memory_length
    widgets,         \* widgets the last pass rendered
    requests,        \* number of conversation.invoke calls made so far
    executed,        \* number of non-blank submissions handled so far
    succeeded,       \* remote calls that returned a reply since the last reset
    lastEvent,       \* what the last pass did (observation only)
    built            \* result of the last direct call of create_conversation

vars == <<groq_api_key, session_keys, chat_history, conversation, model,
          memory_length, widgets, requests, executed, succeeded, lastEvent,
          built>>

None == [kind |-> "None"]
NoRequest == [sent |-> FALSE]
NoBuild == [called |-> FALSE]

\* st.session_state as one value
SessionState ==
    [keys |-> session_keys, chat_history |-> chat_history,
     conversation |-> conversation, model |-> model,
     memory_length |-> memory_length]

(* --------------------- ConversationBufferWindowMemory ------------------ *)
\* memory.save_context: one human and one ai message are appended
save_context(messages, input, output) ==
    messages \o <<[type |-> "human", content |-> input],
                  [type |-> "ai", content |-> output]>>

\* variant: the window is cut at k messages instead of k exchanges
buffer_k_messages(memory) ==
    LET n == Len(memory.messages)
        w == memory.k
    IN  IF memory.k > 0
           THEN SubSeq(memory.messages, IF n > w THEN n - w + 1 ELSE 1, n)
           ELSE <<>>

\* the window the chain reads: messages[-k * 2:] if k > 0 else []
buffer(memory) ==
    LET n == Len(memory.messages)
        w == memory.k * 2
    IN  IF memory.k > 0
           THEN SubSeq(memory.messages, IF n > w THEN n - w + 1 ELSE 1, n)
           ELSE <<>>

\* variant: the history is preloaded newest first
RECURSIVE preload_newest_first(_, _)
preload_newest_first(messages, history) ==
    IF history = <<>> THEN messages
    ELSE preload_newest_first(
             save_context(messages, history[Len(history)].human,
                          history[Len(history)].AI),
             SubSeq(history, 1, Len(history) - 1))

\* the loop of create_conversation over chat_history
RECURSIVE preload(_, _)
preload(messages, history) ==
    IF history = <<>> THEN messages
    ELSE preload(save_context(messages, Head(history).human, Head(history).AI),
                 Tail(history))

(* -------------------------- create_conversation ------------------------ *)
\* a model identifier that is not in SUPPORTED_MODELS
UnlistedModel == "mixtral-8x7b-32768"

IsSupported(m) == \E i \in 1..Len(SUPPORTED_MODELS) : SUPPORTED_MODELS[i] = m

\* variant: an identifier outside SUPPORTED_MODELS is refused
create_conversation_validates_model(s, m, k) ==
    LET memory == [k |-> k, messages |-> preload(<<>>, s.chat_history)]
    IN  IF ~groq_api_key \/ ~IsSupported(m)
           THEN [raised |-> TRUE, value |-> None]
           ELSE [raised |-> FALSE,
                 value |-> [kind |-> "ConversationChain",
                            llm |-> [model_name |-> m],
                            memory |-> memory]]

\* variant: the client is built whether or not a key is present
create_conversation_accepts_missing_key(s, m, k) ==
    LET memory == [k |-> k, messages |-> preload(<<>>, s.chat_history)]
    IN  [raised |-> FALSE,
         value |-> [kind |-> "ConversationChain",
                    llm |-> [model_name |-> m],
                    memory |-> memory]]

\* ChatGroq(groq_api_key=None) raises while it builds its client
create_conversation(s, m, k) ==
    LET memory == [k |-> k, messages |-> preload(<<>>, s.chat_history)]
    IN  IF ~groq_api_key
           THEN [raised |-> TRUE, value |-> None]
           ELSE [raised |-> FALSE,
                 value |-> [kind |-> "ConversationChain",
                            llm |-> [model_name |-> m],
                            memory |-> memory]]

(* ------------------------ initialize_session_state --------------------- *)
SessionKeys == {"chat_history", "conversation", "model", "memory_length"}

\* variant: the four values are assigned without the 'not in' tests
initialize_session_state_always_assigns(s) ==
    [keys |-> SessionKeys, chat_history |-> <<>>, conversation |-> None,
     model |-> SUPPORTED_MODELS[1], memory_length |-> DefaultMemoryLength]

\* variant: the default model is an identifier no longer in SUPPORTED_MODELS
initialize_session_state_stale_default(s) ==
    [keys |-> s.keys \cup {"chat_history", "conversation", "model", "memory_length"},
     chat_history |-> IF "chat_history" \in s.keys THEN s.chat_history ELSE <<>>,
     conversation |-> IF "conversation" \in s.keys THEN s.conversation ELSE None,
     model |-> IF "model" \in s.keys THEN s.model ELSE "llama3-8b-8192",
     memory_length |-> IF "memory_length" \in s.keys THEN s.memory_length
                       ELSE DefaultMemoryLength]

initialize_session_state(s) ==
    [keys |-> s.keys \cup {"chat_history", "conversation", "model", "memory_length"},
     chat_history |-> IF "chat_history" \in s.keys THEN s.chat_history ELSE <<>>,
     conversation |-> IF "conversation" \in s.keys THEN s.conversation ELSE None,
     model |-> IF "model" \in s.keys THEN s.model ELSE SUPPORTED_MODELS[1],
     memory_length |-> IF "memory_length" \in s.keys THEN s.memory_length
                       ELSE DefaultMemoryLength]

(* ------------------------------ chain.invoke --------------------------- *)
\* outcome of the remote completion call: a reply or an error
Outcomes == [ok : {TRUE}, reply : Replies] \cup {[ok |-> FALSE]}

\* variant: the question is saved into the memory before the model is called
invoke_saves_before_call(chain, input, outcome) ==
    LET request == [sent |-> TRUE, model_name |-> chain.llm.model_name,
                    history |-> buffer(chain.memory), input |-> input]
    IN  IF outcome.ok
           THEN [raised |-> FALSE, calls |-> 1, request |-> request,
                 response |-> outcome.reply,
                 chain |-> [chain EXCEPT !.memory.messages =
                               save_context(@, input, outcome.reply)]]
           ELSE [raised |-> TRUE, calls |-> 1, request |-> request,
                 response |-> <<>>,
                 chain |-> [chain EXCEPT !.memory.messages =
                               save_context(@, input, <<>>)]]

\* variant: a failed call is tried a second time
invoke_retries(chain, input, outcome) ==
    LET request == [sent |-> TRUE, model_name |-> chain.llm.model_name,
                    history |-> buffer(chain.memory), input |-> input]
    IN  IF outcome.ok
           THEN [raised |-> FALSE, calls |-> 1, request |-> request,
                 response |-> outcome.reply,
                 chain |-> [chain EXCEPT !.memory.messages =
                               save_context(@, input, outcome.reply)]]
           ELSE [raised |-> TRUE, calls |-> 2, request |-> request,
                 response |-> <<>>, chain |-> chain]

\* ConversationChain.invoke: read the window, call the model once, and on a
\* reply save the exchange into the chain's memory; on None the attribute
\* lookup raises before any call is made
invoke(chain, input, outcome) ==
    LET request == [sent |-> TRUE, model_name |-> chain.llm.model_name,
                    history |-> buffer(chain.memory), input |-> input]
    IN  IF chain = None
           THEN [raised |-> TRUE, calls |-> 0, request |-> NoRequest,
                 response |-> <<>>, chain |-> chain]
        ELSE IF outcome.ok
           THEN [raised |-> FALSE, calls |-> 1, request |-> request,
                 response |-> outcome.reply,
                 chain |-> [chain EXCEPT !.memory.messages =
                               save_context(@, input, outcome.reply)]]
           ELSE [raised |-> TRUE, calls |-> 1, request |-> request,
                 response |-> <<>>, chain |-> chain]

(* ---------------------------- handle_user_input ------------------------ *)
\* variant: the turn is recorded whether or not the remote call raised
handle_user_input_records_failure(s, user_question, outcome) ==
    IF strip(user_question) = <<>>
       THEN [s |-> s, calls |-> 0, request |-> NoRequest,
             kind |-> "submit_blank", error_shown |-> FALSE]
       ELSE LET r == invoke(s.conversation, user_question, outcome)
                message == [human |-> user_question, AI |-> r.response]
            IN  [s |-> [s EXCEPT !.conversation = r.chain,
                                 !.chat_history = Append(@, message)],
                 calls |-> r.calls, request |-> r.request,
                 kind |-> IF r.raised THEN "submit_failed" ELSE "submit_ok",
                 error_shown |-> r.raised]

\* variant: only the empty text is ignored, whitespace is sent
handle_user_input_no_strip(s, user_question, outcome) ==
    IF user_question = <<>>
       THEN [s |-> s, calls |-> 0, request |-> NoRequest,
             kind |-> "submit_blank", error_shown |-> FALSE]
       ELSE LET r == invoke(s.conversation, user_question, outcome)
                message == [human |-> user_question, AI |-> r.response]
            IN  IF r.raised
                   THEN [s |-> [s EXCEPT !.conversation = r.chain],
                         calls |-> r.calls, request |-> r.request,
                         kind |-> "submit_failed", error_shown |-> TRUE]
                   ELSE [s |-> [s EXCEPT !.conversation = r.chain,
                                         !.chat_history = Append(@, message)],
                         calls |-> r.calls,
                         request |-> r.request,
                         kind |-> "submit_ok", error_shown |-> FALSE]

\* variant: the question is stripped before it is sent and recorded
handle_user_input_trims(s, user_question, outcome) ==
    IF strip(user_question) = <<>>
       THEN [s |-> s, calls |-> 0, request |-> NoRequest,
             kind |-> "submit_blank", error_shown |-> FALSE]
       ELSE LET r == invoke(s.conversation, strip(user_question), outcome)
                message == [human |-> strip(user_question), AI |-> r.response]
            IN  IF r.raised
                   THEN [s |-> [s EXCEPT !.conversation = r.chain],
                         calls |-> r.calls, request |-> r.request,
                         kind |-> "submit_failed", error_shown |-> TRUE]
                   ELSE [s |-> [s EXCEPT !.conversation = r.chain,
                                         !.chat_history = Append(@, message)],
                         calls |-> r.calls,
                         request |-> r.request,
                         kind |-> "submit_ok", error_shown |-> FALSE]

\* variant: the new turn is put in front of the transcript
handle_user_input_prepends(s, user_question, outcome) ==
    IF strip(user_question) = <<>>
       THEN [s |-> s, calls |-> 0, request |-> NoRequest,
             kind |-> "submit_blank", error_shown |-> FALSE]
       ELSE LET r == invoke(s.conversation, user_question, outcome)
                message == [human |-> user_question, AI |-> r.response]
            IN  IF r.raised
                   THEN [s |-> [s EXCEPT !.conversation = r.chain],
                         calls |-> r.calls, request |-> r.request,
                         kind |-> "submit_failed", error_shown |-> TRUE]
                   ELSE [s |-> [s EXCEPT !.conversation = r.chain,
                                         !.chat_history = <<message>> \o @],
                         calls |-> r.calls,
                         request |-> r.request,
                         kind |-> "submit_ok", error_shown |-> FALSE]

\* variant: the transcript records the stripped question, the chain's memory
\* the question as typed
handle_user_input_records_stripped(s, user_question, outcome) ==
    IF strip(user_question) = <<>>
       THEN [s |-> s, calls |-> 0, request |-> NoRequest,
             kind |-> "submit_blank", error_shown |-> FALSE]
       ELSE LET r == invoke(s.conversation, user_question, outcome)
                message == [human |-> strip(user_question), AI |-> r.response]
            IN  IF r.raised
                   THEN [s |-> [s EXCEPT !.conversation = r.chain],
                         calls |-> r.calls, request |-> r.request,
                         kind |-> "submit_failed", error_shown |-> TRUE]
                   ELSE [s |-> [s EXCEPT !.conversation = r.chain,
                                         !.chat_history = Append(@, message)],
                         calls |-> r.calls,
                         request |-> r.request,
                         kind |-> "submit_ok", error_shown |-> FALSE]

\* result: the session state, the calls made, and what was shown; the chain
\* is one object, so the session holds it as invoke left it on either path
handle_user_input(s, user_question, outcome) ==
    IF strip(user_question) = <<>>
       THEN [s |-> s, calls |-> 0, request |-> NoRequest,
             kind |-> "submit_blank", error_shown |-> FALSE]
       ELSE LET r == invoke(s.conversation, user_question, outcome)
                message == [human |-> user_question, AI |-> r.response]
            IN  IF r.raised
                   THEN [s |-> [s EXCEPT !.conversation = r.chain],
                         calls |-> r.calls, request |-> r.request,
                         kind |-> "submit_failed", error_shown |-> TRUE]
                   ELSE [s |-> [s EXCEPT !.conversation = r.chain,
                                         !.chat_history = Append(@, message)],
                         calls |-> r.calls,
                         request |-> r.request,
                         kind |-> "submit_ok", error_shown |-> FALSE]

(* ----------------------------- reset_conversation ---------------------- *)
\* variant: the session is built before the history is cleared
reset_conversation_builds_first(s) ==
    LET c == create_conversation(s, s.model, s.memory_length)
        cleared == [s EXCEPT !.chat_history = <<>>]
    IN  IF c.raised THEN [s |-> s, raised |-> TRUE]
        ELSE [s |-> [cleared EXCEPT !.conversation = c.value], raised |-> FALSE]

\* variant: only the oldest turn is dropped
reset_conversation_drops_oldest(s) ==
    LET cleared == [s EXCEPT !.chat_history = IF @ = <<>> THEN @ ELSE Tail(@)]
        c == create_conversation(cleared, cleared.model, cleared.memory_length)
    IN  IF c.raised THEN [s |-> cleared, raised |-> TRUE]
        ELSE [s |-> [cleared EXCEPT !.conversation = c.value], raised |-> FALSE]

\* chat_history is cleared before the build, so it stays cleared if the
\* build raises; st.rerun() inside a callback does nothing
reset_conversation(s) ==
    LET cleared == [s EXCEPT !.chat_history = <<>>]
        c == create_conversation(cleared, cleared.model, cleared.memory_length)
    IN  IF c.raised THEN [s |-> cleared, raised |-> TRUE]
        ELSE [s |-> [cleared EXCEPT !.conversation = c.value], raised |-> FALSE]

(* ----------------------------- handle_model_change --------------------- *)
\* variant: the rebuild starts from an empty history
handle_model_change_clears_history(s) ==
    LET cleared == [s EXCEPT !.chat_history = <<>>]
        c == create_conversation(cleared, cleared.model, cleared.memory_length)
    IN  IF c.raised THEN [s |-> cleared, raised |-> TRUE]
        ELSE [s |-> [cleared EXCEPT !.conversation = c.value], raised |-> FALSE]

handle_model_change(s) ==
    LET c == create_conversation(s, s.model, s.memory_length)
    IN  IF c.raised THEN [s |-> s, raised |-> TRUE]
        ELSE [s |-> [s EXCEPT !.conversation = c.value], raised |-> FALSE]

(* ------------------------------------ main ----------------------------- *)
\* what the sidebar renders; "api_status" is the key status of lines 145-150
Sidebar == {"selectbox", "slider", "button", "api_status"}

\* a pass that an uncaught exception ended
Aborted(s, shown) ==
    [s |-> s, raised |-> TRUE, widgets |-> shown, calls |-> 0,
     request |-> NoRequest, turn |-> "none", error_shown |-> FALSE]

\* a pass that ran to its end without reaching handle_user_input
Finished(s, shown, key_error) ==
    [s |-> s, raised |-> FALSE, widgets |-> shown, calls |-> 0,
     request |-> NoRequest, turn |-> "none", error_shown |-> key_error]

\* variant: the lazy build of lines 158-163 is left out
chat_interface_no_lazy_build(s, user_question, outcome) ==
    IF ~groq_api_key THEN Finished(s, Sidebar, TRUE)
    ELSE IF user_question = <<>> THEN Finished(s, Sidebar \cup {"chat_input"}, FALSE)
    ELSE LET h == handle_user_input(s, user_question, outcome)
         IN  [s |-> h.s, raised |-> FALSE,
              widgets |-> Sidebar \cup {"chat_input"},
              calls |-> h.calls,
              request |-> h.request,
              turn |-> h.kind, error_shown |-> h.error_shown]

\* lines 158-178: lazy build, history display, key check, chat input
chat_interface(s, user_question, outcome) ==
    LET c  == create_conversation(s, s.model, s.memory_length)
        s1 == IF s.conversation = None /\ ~c.raised
                 THEN [s EXCEPT !.conversation = c.value] ELSE s
    IN  IF s.conversation = None /\ c.raised THEN Aborted(s, Sidebar)
        ELSE IF ~groq_api_key THEN Finished(s1, Sidebar, TRUE)
        ELSE IF user_question = <<>> THEN Finished(s1, Sidebar \cup {"chat_input"}, FALSE)
        ELSE LET h == handle_user_input(s1, user_question, outcome)
             IN  [s |-> h.s, raised |-> FALSE,
                  widgets |-> Sidebar \cup {"chat_input"},
                  calls |-> h.calls,
                  request |-> h.request,
                  turn |-> h.kind, error_shown |-> h.error_shown]

\* variant: the new memory_length is stored but the session is not rebuilt
memory_settings_no_rebuild(s, sel_memory, user_question, outcome) ==
    IF sel_memory # s.memory_length
       THEN chat_interface([s EXCEPT !.memory_length = sel_memory],
                           user_question, outcome)
       ELSE chat_interface(s, user_question, outcome)

\* lines 130-140 and on: the slider, then the rest of the page
memory_settings(s, sel_memory, user_question, outcome) ==
    IF sel_memory # s.memory_length
       THEN LET r == handle_model_change([s EXCEPT !.memory_length = sel_memory])
            IN  IF r.raised THEN Aborted(r.s, {"selectbox", "slider"})
                ELSE chat_interface(r.s, user_question, outcome)
       ELSE chat_interface(s, user_question, outcome)

\* one run of the script: sel_model and sel_memory are what the selectbox
\* and the slider return, user_question what st.chat_input returns
\* (the empty text when nothing was submitted)
main(s0, sel_model, sel_memory, user_question, outcome) ==
    LET s == initialize_session_state(s0)
    IN  IF sel_model # s.model
           THEN LET r == handle_model_change([s EXCEPT !.model = sel_model])
                IN  IF r.raised THEN Aborted(r.s, {"selectbox"})
                    ELSE memory_settings(r.s, sel_memory, user_question, outcome)
           ELSE memory_settings(s, sel_memory, user_question, outcome)

\* the button's on_click callback runs first; the script follows unless the
\* callback raised
reset_click(s0) ==
    LET r == reset_conversation(s0)
    IN  IF r.raised THEN Aborted(r.s, widgets)
        ELSE main(r.s, r.s.model, r.s.memory_length, <<>>, [ok |-> FALSE])


(* ----------------------------- the state machine ----------------------- *)
NoOutcome == [ok |-> FALSE]

\* st.session_state starts with no keys; what the four variables hold until
\* their key exists is never read
Init ==
    /\ groq_api_key \in BOOLEAN
    /\ session_keys = {}
    /\ chat_history = <<>>
    /\ conversation = None
    /\ model = "<absent>"
    /\ memory_length = 0
    /\ widgets = {}
    /\ requests = 0
    /\ executed = 0
    /\ succeeded = 0
    /\ lastEvent = [event |-> "init", turn |-> "none", submitted |-> <<>>,
                    replied |-> FALSE, raised |-> FALSE, error_shown |-> FALSE,
                    request |-> NoRequest, len_before |-> 0]
    /\ built = NoBuild

\* the state a pass leaves behind: r is the result of the pass, event the
\* interaction that started it, q the submitted text, outcome the remote answer
Apply(r, event, q, outcome) ==
    /\ session_keys' = r.s.keys
    /\ chat_history' = r.s.chat_history
    /\ conversation' = r.s.conversation
    /\ model' = r.s.model
    /\ memory_length' = r.s.memory_length
    /\ widgets' = r.widgets
    /\ requests' = requests + r.calls
    /\ executed' = IF event = "submit" /\ strip(q) # <<>> THEN executed + 1
                   ELSE executed
    /\ succeeded' = IF event = "reset" THEN 0
                    ELSE IF r.request.sent /\ outcome.ok THEN succeeded + 1
                    ELSE succeeded
    /\ lastEvent' = [event |-> event, turn |-> r.turn, submitted |-> q,
                     replied |-> r.request.sent /\ outcome.ok,
                     raised |-> r.raised, error_shown |-> r.error_shown,
                     request |-> r.request, len_before |-> Len(chat_history)]
    /\ UNCHANGED <<groq_api_key, built>>

\* what the widgets return when the user left them alone: the values stored
\* once initialize_session_state has run (lines 121 and 134)
ShownModel == initialize_session_state(SessionState).model
ShownMemory == initialize_session_state(SessionState).memory_length

\* the page is loaded or rerun with no widget touched
Rerun ==
    Apply(main(SessionState, ShownModel, ShownMemory, <<>>, NoOutcome),
          "rerun", <<>>, NoOutcome)

\* the user picks another model in the selectbox
ModelChange ==
    /\ "selectbox" \in widgets
    /\ \E i \in 1..Len(SUPPORTED_MODELS) :
          /\ SUPPORTED_MODELS[i] # model
          /\ Apply(main(SessionState, SUPPORTED_MODELS[i], ShownMemory, <<>>, NoOutcome),
                   "model_change", <<>>, NoOutcome)

\* the user moves the slider
MemoryChange ==
    /\ "slider" \in widgets
    /\ \E k \in SliderMin..SliderMax :
          /\ k # memory_length
          /\ Apply(main(SessionState, ShownModel, k, <<>>, NoOutcome),
                   "memory_change", <<>>, NoOutcome)

\* the selectbox and the slider both return a new value in one pass
BothChange ==
    /\ {"selectbox", "slider"} \subseteq widgets
    /\ \E i \in 1..Len(SUPPORTED_MODELS), k \in SliderMin..SliderMax :
          /\ SUPPORTED_MODELS[i] # model
          /\ k # memory_length
          /\ Apply(main(SessionState, SUPPORTED_MODELS[i], k, <<>>, NoOutcome),
                   "config_change", <<>>, NoOutcome)

\* the user presses the reset button
ResetClick ==
    /\ "button" \in widgets
    /\ Apply(reset_click(SessionState), "reset", <<>>, NoOutcome)

\* the user submits a text in the chat input; the remote call answers or fails
Submit ==
    /\ "chat_input" \in widgets
    /\ executed < MaxSubmits
    /\ \E q \in Texts, outcome \in Outcomes :
          Apply(main(SessionState, ShownModel, ShownMemory, q, outcome),
                "submit", q, outcome)

Next == Rerun \/ ModelChange \/ MemoryChange \/ BothChange \/ ResetClick \/ Submit

Spec == Init /\ [][Next]_vars

(* ------------------- create_conversation called directly --------------- *)
\* the identifiers a caller may hand to create_conversation
ModelInputs == {SUPPORTED_MODELS[i] : i \in 1..Len(SUPPORTED_MODELS)} \cup {UnlistedModel}

\* a direct call of create_conversation(m, k) over the current session state
Build ==
    /\ "chat_history" \in session_keys
    /\ \E m \in ModelInputs, k \in SliderMin..SliderMax :
          LET c == create_conversation(SessionState, m, k)
          IN  built' = [called |-> TRUE, model |-> m, k |-> k,
                        raised |-> c.raised, value |-> c.value]
    /\ UNCHANGED <<groq_api_key, session_keys, chat_history, conversation, model,
                   memory_length, widgets, requests, executed, succeeded,
                   lastEvent>>

NextBuild == Rerun \/ ModelChange \/ MemoryChange \/ ResetClick \/ Build

SpecBuild == Init /\ [][NextBuild]_vars

(* -------------------------------- typing ------------------------------- *)
TypeOK ==
    /\ groq_api_key \in BOOLEAN
    /\ Len(chat_history) <= MaxSubmits
    /\ "memory_length" \in session_keys => memory_length \in SliderMin..SliderMax
    /\ "model" \in session_keys => IsSupported(model)
    /\ requests \in 0..MaxSubmits
    /\ executed \in 0..MaxSubmits

(* ------------------------- reading a session -------------------------- *)
Min(a, b) == IF a < b THEN a ELSE b

\* the last min(n, k) turns of a transcript, oldest first
LastTurns(history, k) ==
    SubSeq(history, Len(history) - Min(Len(history), k) + 1, Len(history))

\* a message list is human, ai, human, ai, ...
Alternating(messages) ==
    /\ Len(messages) % 2 = 0
    /\ \A i \in 1..Len(messages) :
          messages[i].type = (IF i % 2 = 1 THEN "human" ELSE "ai")

\* the turns a message list stands for
Turns(messages) ==
    [i \in 1..(Len(messages) \div 2) |->
        [human |-> messages[2 * i - 1].content, AI |-> messages[2 * i].content]]

\* the turns a session supplies as context to the remote call
Context(chain) == Turns(buffer(chain.memory))

Rebuilt(event) ==
    event \in {"rerun", "model_change", "memory_change", "config_change", "reset"}

(* -------------------------------- claims ------------------------------- *)

\* C1: the transcript has exactly one entry per submission whose remote call
\* returned a reply since the session started or was last reset; failed and
\* blank submissions add none.
C1_TranscriptCountsSuccesses == Len(chat_history) = succeeded

\* two replies and one failure, no reset in between
C1_Witness ==
    /\ succeeded = 2
    /\ executed = 3
    /\ Len(chat_history) = 2

\* C2: a session built with window k over a transcript of n turns supplies
\* exactly min(n, k) turns as context, the most recent ones, oldest first.
\* Stated of the session a rebuild has just stored and of the builder applied
\* to the current transcript with every window size.
C2_RebuildKeepsLastK ==
    /\ (Rebuilt(lastEvent.event) /\ conversation # None) =>
          /\ Alternating(buffer(conversation.memory))
          /\ Context(conversation) = LastTurns(chat_history, conversation.memory.k)
          /\ Len(Context(conversation)) = Min(Len(chat_history), conversation.memory.k)
    /\ groq_api_key =>
          \A k \in SliderMin..SliderMax :
             LET c == create_conversation(SessionState, model, k)
             IN  /\ ~c.raised
                 /\ Alternating(buffer(c.value.memory))
                 /\ Context(c.value) = LastTurns(chat_history, k)
                 /\ Len(Context(c.value)) = Min(Len(chat_history), k)

\* a rebuild that had to drop the oldest turn
C2_Witness ==
    /\ lastEvent.event = "memory_change"
    /\ conversation # None
    /\ Len(chat_history) = 3
    /\ conversation.memory.k = 2

\* C3: whenever a session exists it is the one a rebuild from the stored
\* configuration and transcript would give, and its context is the last
\* min(n, memory_length) turns of the transcript in order.
C3_SessionMirrorsTranscript ==
    conversation # None =>
       /\ Context(conversation) = LastTurns(chat_history, memory_length)
       /\ conversation = create_conversation(SessionState, model, memory_length).value

\* a successful turn that pushed the oldest turn out of the window
C3_Witness ==
    /\ lastEvent.turn = "submit_ok"
    /\ conversation # None
    /\ Len(chat_history) > memory_length
    /\ \E i \in 1..Len(chat_history) : strip(chat_history[i].human) # chat_history[i].human

\* C4: when the remote call raises, the error is caught and shown, the
\* transcript and the session are left as they were, the chat input is
\* rendered again, and the next request goes to that same session.
C4_FailedTurnLeavesNoTrace ==
    [][/\ (lastEvent'.event = "submit" /\ lastEvent'.request.sent /\ ~lastEvent'.replied) =>
             /\ lastEvent'.turn = "submit_failed"
             /\ lastEvent'.error_shown
             /\ ~lastEvent'.raised
             /\ chat_history' = chat_history
             /\ conversation # None
             /\ conversation' = conversation
             /\ "chat_input" \in widgets'
       /\ (lastEvent.turn = "submit_failed" /\ lastEvent'.request.sent) =>
             /\ lastEvent'.request.history = buffer(conversation.memory)
             /\ lastEvent'.request.model_name = conversation.llm.model_name
      ]_vars

\* a failed call after a recorded turn, with another submission still allowed
C4_Witness ==
    /\ lastEvent.turn = "submit_failed"
    /\ lastEvent.error_shown
    /\ Len(chat_history) >= 1
    /\ "chat_input" \in widgets
    /\ executed < MaxSubmits

\* C5: the request of a turn started with n recorded turns and window k
\* carries the last min(n, k) turns, oldest first, and the new utterance;
\* after a reply the session's context is the last min(n + 1, k) turns.
C5_RequestCarriesWindow ==
    [][(lastEvent'.request.sent /\ requests' # requests) =>
          /\ Alternating(lastEvent'.request.history)
          /\ Turns(lastEvent'.request.history) = LastTurns(chat_history, memory_length)
          /\ Len(Turns(lastEvent'.request.history)) = Min(Len(chat_history), memory_length)
          /\ lastEvent'.request.input = lastEvent'.submitted
          /\ lastEvent'.replied =>
                /\ chat_history' = Append(chat_history,
                       [human |-> lastEvent'.submitted, AI |-> chat_history'[Len(chat_history')].AI])
                /\ Context(conversation') = LastTurns(chat_history', memory_length)
      ]_vars

\* window 2: the third submission saw turns 1 and 2, and the context now holds
\* turns 2 and 3
C5_Witness ==
    /\ memory_length = 2
    /\ lastEvent.turn = "submit_ok"
    /\ Len(chat_history) = 3
    /\ Turns(lastEvent.request.history) = SubSeq(chat_history, 1, 2)
    /\ Context(conversation) = SubSeq(chat_history, 2, 3)

\* C6: a submission that is empty after strip() changes neither the
\* transcript nor the session and makes no remote call.
C6_BlankSubmissionIsNoOp ==
    [][(lastEvent'.event = "submit" /\ strip(lastEvent'.submitted) = <<>>) =>
          /\ chat_history' = chat_history
          /\ conversation' = conversation
          /\ requests' = requests
          /\ ~lastEvent'.request.sent
      ]_vars

\* a whitespace-only submission after a recorded turn
C6_Witness ==
    /\ lastEvent.event = "submit"
    /\ lastEvent.submitted = <<" ">>
    /\ lastEvent.turn = "submit_blank"
    /\ Len(chat_history) >= 1

\* C7: a change of model or memory_length leaves the transcript as it was
\* and, when the build succeeds, stores the session built from that
\* transcript under the new configuration; the transcript becomes empty only
\* by a reset.
C7_ConfigChangeKeepsTranscript ==
    [][/\ (lastEvent'.event \in {"model_change", "memory_change", "config_change"}
             /\ (model' # model \/ memory_length' # memory_length)) =>
             /\ chat_history' = chat_history
             /\ groq_api_key =>
                   /\ conversation' # None
                   /\ conversation'.llm.model_name = model'
                   /\ conversation'.memory.k = memory_length'
                   /\ conversation'.memory.messages = preload(<<>>, chat_history)
                   /\ Context(conversation') = LastTurns(chat_history, memory_length')
       /\ (chat_history # <<>> /\ chat_history' = <<>>) => lastEvent'.event = "reset"
      ]_vars

\* the window shrunk to 1 under a transcript of 3 turns
C7_Witness ==
    /\ lastEvent.event = "memory_change"
    /\ lastEvent.len_before = 3
    /\ Len(chat_history) = 3
    /\ memory_length = 1
    /\ Context(conversation) = SubSeq(chat_history, 3, 3)

\* C8: reset empties the transcript, keeps model and memory_length, and,
\* when the build succeeds, stores a new session for that configuration
\* with an empty memory.
C8_ResetClearsAndRebuilds ==
    [][lastEvent'.event = "reset" =>
          /\ chat_history' = <<>>
          /\ model' = model
          /\ memory_length' = memory_length
          /\ groq_api_key =>
                /\ ~lastEvent'.raised
                /\ conversation' # None
                /\ conversation'.memory.messages = <<>>
                /\ Context(conversation') = <<>>
                /\ conversation'.llm.model_name = model
                /\ conversation'.memory.k = memory_length
      ]_vars

\* a reset of a two-turn transcript under a non-default configuration
C8_Witness ==
    /\ lastEvent.event = "reset"
    /\ lastEvent.len_before >= 2
    /\ conversation # None
    /\ model # SUPPORTED_MODELS[1]
    /\ memory_length # DefaultMemoryLength

\* C9: from every state in which the reset button is shown, resetting twice
\* gives the same session state as resetting once; a state a reset has just
\* produced is left as it is by a further reset.
C9_ResetIdempotent ==
    "button" \in widgets =>
       LET once  == reset_click(SessionState).s
           twice == reset_click(once).s
       IN  /\ twice = once
           /\ lastEvent.event = "reset" => once = SessionState

\* a reset that had turns to discard
C9_Witness ==
    /\ lastEvent.event = "reset"
    /\ lastEvent.len_before >= 1
    /\ "button" \in widgets
    /\ groq_api_key

\* C10: a pass makes one call of the remote model when it handles a
\* non-blank submission, reply or error alike, and none otherwise; the
\* calls made equal the non-blank submissions handled.
C10_OneRequestPerTurn ==
    [][/\ requests' = requests +
             (IF lastEvent'.event = "submit" /\ strip(lastEvent'.submitted) # <<>>
                 THEN 1 ELSE 0)
       /\ requests' = executed'
      ]_vars

\* a reply, then an error: two calls
C10_Witness ==
    /\ requests = 2
    /\ succeeded = 1
    /\ lastEvent.turn = "submit_failed"
    /\ lastEvent.len_before = 1

\* C11: without a credential no pass starts a turn, makes a remote call or
\* changes the transcript, and every pass runs to its end with the
\* missing-key message shown.
C11_NoCredentialPassCompletes ==
    ~groq_api_key =>
       /\ requests = 0
       /\ chat_history = <<>>
       /\ "chat_input" \notin widgets
       /\ ~lastEvent.raised
       /\ lastEvent.event # "init" =>
             ("api_status" \in widgets \/ lastEvent.error_shown)

\* C12: without a credential every build raises and yields no session, so
\* no session is ever stored, the chat input is never rendered and no
\* request is made: the failure shows in the pass that builds, before any
\* input.
C12_MissingKeyFailsAtBuild ==
    ~groq_api_key =>
       /\ \A i \in 1..Len(SUPPORTED_MODELS), k \in SliderMin..SliderMax :
             LET c == create_conversation(SessionState, SUPPORTED_MODELS[i], k)
             IN  c.raised /\ c.value = None
       /\ conversation = None
       /\ "chat_input" \notin widgets
       /\ requests = 0
       /\ lastEvent.event # "init" => lastEvent.raised

\* a model change whose rebuild raised for want of a key
C12_Witness ==
    /\ ~groq_api_key
    /\ lastEvent.event = "model_change"
    /\ lastEvent.raised
    /\ conversation = None

C14_ConfigurationValid ==
    [][/\ IsSupported(model')
       /\ memory_length' \in 1..15
       /\ (session_keys = {} /\ session_keys' # {}) =>
             /\ model' = SUPPORTED_MODELS[1]
             /\ memory_length' = 5
      ]_vars

\* both settings moved away from their defaults, the window to its maximum
C14_Witness ==
    /\ lastEvent.event = "config_change"
    /\ {"model", "memory_length"} \subseteq session_keys
    /\ model = SUPPORTED_MODELS[2]
    /\ memory_length = 15

\* C15: a pass other than a reset leaves the old transcript as a prefix of
\* the new one; a submission that got a reply adds exactly one turn, at the
\* end, and every other such pass adds none.
C15_TranscriptAppendOnly ==
    [][lastEvent'.event # "reset" =>
          /\ Len(chat_history') >= Len(chat_history)
          /\ SubSeq(chat_history', 1, Len(chat_history)) = chat_history
          /\ (lastEvent'.replied /\ requests' # requests) =>
                /\ Len(chat_history') = Len(chat_history) + 1
                /\ chat_history'[Len(chat_history')].human = lastEvent'.submitted
                /\ chat_history'[Len(chat_history')].AI \in Replies
          /\ ~lastEvent'.replied => chat_history' = chat_history
      ]_vars

\* three recorded turns, neighbours with different questions
C15_Witness ==
    /\ lastEvent.turn = "submit_ok"
    /\ Len(chat_history) = 3
    /\ chat_history[1].human # chat_history[2].human
    /\ chat_history[2].human # chat_history[3].human

\* C16: initialize_session_state applied twice gives what it gives applied
\* once; when the four keys exist it changes nothing; on an empty session
\* state it gives an empty transcript, the first supported model,
\* memory_length 5 and no session.
C16_InitializeIdempotent ==
    LET once == initialize_session_state(SessionState)
    IN  /\ initialize_session_state(once) = once
        /\ session_keys = SessionKeys => once = SessionState
        /\ session_keys = {} =>
              /\ once.keys = SessionKeys
              /\ once.chat_history = <<>>
              /\ once.model = SUPPORTED_MODELS[1]
              /\ once.memory_length = 5
              /\ once.conversation = None

\* a rerun over a session that has a turn and a non-default configuration
C16_Witness ==
    /\ lastEvent.event = "rerun"
    /\ session_keys = SessionKeys
    /\ Len(chat_history) >= 1
    /\ model # SUPPORTED_MODELS[1]
    /\ memory_length # 5
    /\ conversation # None

\* C17 as claimed: the text sent to the remote call and the human field of
\* every recorded turn neither begin nor end with whitespace.
C17_UtteranceTrimmed ==
    /\ \A i \in 1..Len(chat_history) :
          strip(chat_history[i].human) = chat_history[i].human
    /\ lastEvent.request.sent =>
          strip(lastEvent.request.input) = lastEvent.request.input

\* C17 as amended: strip() only decides whether the submission is blank; the
\* text sent and the human field recorded are the submission as typed, and
\* no recorded question is blank.
C17_UtteranceSentAsTyped ==
    [][/\ (lastEvent'.request.sent /\ requests' # requests) =>
             /\ strip(lastEvent'.submitted) # <<>>
             /\ lastEvent'.request.input = lastEvent'.submitted
             /\ lastEvent'.replied =>
                   chat_history'[Len(chat_history')].human = lastEvent'.submitted
       /\ \A i \in 1..Len(chat_history') : strip(chat_history'[i].human) # <<>>
      ]_vars

\* a question with leading whitespace sent and recorded as typed
C17_Witness ==
    /\ lastEvent.turn = "submit_ok"
    /\ lastEvent.submitted = <<" ", "a">>
    /\ lastEvent.request.input = <<" ", "a">>
    /\ chat_history[Len(chat_history)].human = <<" ", "a">>

\* C18: a stored session is bound to the stored model and memory_length at
\* the end of every pass, and every request is made by such a session: it
\* names the stored model and carries the window of the stored memory_length.
C18_SessionBuiltForStoredConfig ==
    [][/\ conversation' # None =>
             /\ conversation'.llm.model_name = model'
             /\ conversation'.memory.k = memory_length'
       /\ (lastEvent'.request.sent /\ requests' # requests) =>
             /\ conversation # None
             /\ conversation.llm.model_name = model
             /\ conversation.memory.k = memory_length
             /\ lastEvent'.request.model_name = model'
             /\ Len(lastEvent'.request.history) =
                   2 * Min(Len(chat_history), memory_length')
      ]_vars

\* a request under the second model and the smallest window, with more turns
\* recorded than the window holds
C18_Witness ==
    /\ lastEvent.request.sent
    /\ lastEvent.request.model_name = SUPPORTED_MODELS[2]
    /\ model = SUPPORTED_MODELS[2]
    /\ memory_length = 1
    /\ lastEvent.len_before = 2
    /\ Len(lastEvent.request.history) = 2

\* C19: a pass that renders the chat input has a session stored, a
\* submission is handled only with a session stored, and a stored session is
\* never followed by none.
C19_SessionReadyBeforeInput ==
    [][/\ conversation # None => conversation' # None
       /\ "chat_input" \in widgets' => conversation' # None
       /\ (lastEvent'.event = "submit" /\ lastEvent'.turn # "none") =>
             (conversation # None /\ conversation' # None)
      ]_vars

\* a reset after two requests leaves a session in place
C19_Witness ==
    /\ lastEvent.event = "reset"
    /\ requests = 2
    /\ conversation # None
    /\ "chat_input" \in widgets

====
